---- MODULE Spec2Model ----
(***************************************************************************)
(* Model of the PAX BLE client: the session object PaxDevice (main.py)    *)
(* with its notify -> read -> decrypt -> decode pipeline, and the packet   *)
(* and message functions of protocol.py it calls.                          *)
(*                                                                         *)
(* Python values are modelled as follows.                                  *)
(*   bytes / str   a sequence of byte values 0..255 (ASCII for str)        *)
(*   None|str|bytes a record [t |-> "none"|"str"|"bytes", v |-> sequence]  *)
(*   an exception  its class name, as a string                             *)
(*   str           a sequence of code points; .encode('utf-8') is computed *)
(* The block cipher is AES as FIPS 197 defines it (key sizes 16, 24 and   *)
(* 32 bytes); ECB key derivation, the OFB keystream, the framing           *)
(* ciphertext || IV and the length checks are modelled as the code         *)
(* computes them.                                                          *)
(***************************************************************************)
EXTENDS Integers, Sequences, FiniteSets, TLC

\* ------------------------------------------------------------------------
\* Bounds of the model
\* ------------------------------------------------------------------------

\* number of notifications the peripheral delivers in one behaviour
MaxNotifs == 2

\* number of calls of send_message in one behaviour
MaxSends == 2

\* number of notifications in a behaviour with calls of send_message
MaxSendNotifs == 1

\* longest serial number given to derive_shared_key
MaxSerialLen == 16

\* longest packet given to decrypt_packet
MaxFrameLen == 19

\* longest plaintext given to encrypt_packet
MaxPlainLen == 17

\* largest set of members given to encode_status_update_message
MaxAttrs == 2

\* half the width, in hundredths of a degree, of the windows of
\* temperatures given to encode_temperature_message
TempSpan == 25

\* largest second byte of the messages given to the decoders
MaxFieldByte == 6

\* calls of probe on one PaxDeviceProber
MaxProbes == 2

\* ------------------------------------------------------------------------
\* Byte helpers
\* ------------------------------------------------------------------------

RECURSIVE XorBits(_, _, _)
XorBits(a, b, n) ==
    IF n = 0 THEN 0
    ELSE (((a % 2) + (b % 2)) % 2) + 2 * XorBits(a \div 2, b \div 2, n - 1)

Xor(a, b) == XorBits(a, b, 8)

Min(a, b) == IF a < b THEN a ELSE b

\* bytes.ljust(n, b'\x00')
Ljust(data, n) ==
    IF Len(data) >= n THEN data
    ELSE data \o [i \in 1..(n - Len(data)) |-> 0]

\* data[a:b] with 0 <= a <= b (Python slice, clipped to the length)
Slice(data, a, b) ==
    IF Min(b, Len(data)) <= a THEN << >>
    ELSE SubSeq(data, a + 1, Min(b, Len(data)))

\* bytes.hex(): two digits, given by their values 0..15, for every byte
Hex(data) ==
    [i \in 1..(2 * Len(data)) |->
        IF i % 2 = 1 THEN data[(i + 1) \div 2] \div 16
        ELSE data[i \div 2] % 16]

\* ------------------------------------------------------------------------
\* protocol.py: constants
\* ------------------------------------------------------------------------

IV_LENGTH == 16

\* DEVICE_KEY_KEY, the str '98hmw494dTCGKTvVfdMlQA=='
DEVICE_KEY_KEY ==
    [t |-> "str",
     v |-> << 57, 56, 104, 109, 119, 52, 57, 52, 100, 84, 67, 71,
              75, 84, 118, 86, 102, 100, 77, 108, 81, 65, 61, 61 >>]

\* base64.b64decode(DEVICE_KEY_KEY)
MasterKey ==
    << 247, 200, 102, 195, 143, 120, 117, 48,
       134, 41, 59, 213, 125, 211, 37, 64 >>

NoneVal == [t |-> "none", v |-> << >>]
Str(s) == [t |-> "str", v |-> s]
Bytes(s) == [t |-> "bytes", v |-> s]

\* ------------------------------------------------------------------------
\* Block cipher
\* ------------------------------------------------------------------------

\* a function on 1..n as the tuple of its values
Tuple(f) == SubSeq(f, 1, Len(f))

\* the bytewise XOR of two byte strings of one length
XorSeq(a, b) == Tuple([i \in 1..Len(a) |-> Xor(a[i], b[i])])

\* the AES S-box (FIPS 197, figure 7)
SBox ==
    << 99, 124, 119, 123, 242, 107, 111, 197,  48,   1, 103,  43, 254, 215, 171, 118,
       202, 130, 201, 125, 250,  89,  71, 240, 173, 212, 162, 175, 156, 164, 114, 192,
       183, 253, 147,  38,  54,  63, 247, 204,  52, 165, 229, 241, 113, 216,  49,  21,
         4, 199,  35, 195,  24, 150,   5, 154,   7,  18, 128, 226, 235,  39, 178, 117,
         9, 131,  44,  26,  27, 110,  90, 160,  82,  59, 214, 179,  41, 227,  47, 132,
        83, 209,   0, 237,  32, 252, 177,  91, 106, 203, 190,  57,  74,  76,  88, 207,
       208, 239, 170, 251,  67,  77,  51, 133,  69, 249,   2, 127,  80,  60, 159, 168,
        81, 163,  64, 143, 146, 157,  56, 245, 188, 182, 218,  33,  16, 255, 243, 210,
       205,  12,  19, 236,  95, 151,  68,  23, 196, 167, 126,  61, 100,  93,  25, 115,
        96, 129,  79, 220,  34,  42, 144, 136,  70, 238, 184,  20, 222,  94,  11, 219,
       224,  50,  58,  10,  73,   6,  36,  92, 194, 211, 172,  98, 145, 149, 228, 121,
       231, 200,  55, 109, 141, 213,  78, 169, 108,  86, 244, 234, 101, 122, 174,   8,
       186, 120,  37,  46,  28, 166, 180, 198, 232, 221, 116,  31,  75, 189, 139, 138,
       112,  62, 181, 102,  72,   3, 246,  14,  97,  53,  87, 185, 134, 193,  29, 158,
       225, 248, 152,  17, 105, 217, 142, 148, 155,  30, 135, 233, 206,  85,  40, 223,
       140, 161, 137,  13, 191, 230,  66, 104,  65, 153,  45,  15, 176,  84, 187,  22 >>

\* multiplication by x in GF(2^8), modulo x^8 + x^4 + x^3 + x + 1
XTime(a) == IF 2 * a >= 256 THEN Xor((2 * a) - 256, 27) ELSE 2 * a

\* SubBytes / SubWord: the S-box applied to every byte
SubBytes(s) == Tuple([i \in 1..Len(s) |-> SBox[s[i] + 1]])

\* ShiftRows: row r of the column-major state rotated left by r
ShiftRows(s) ==
    Tuple([i \in 1..16 |->
              LET c == (i - 1) \div 4
                  r == (i - 1) % 4
              IN  s[(4 * ((c + r) % 4)) + r + 1]])

\* MixColumns: every column multiplied by the matrix (2 3 1 1)
MixColumns(s) ==
    Tuple([i \in 1..16 |->
              LET c == 4 * ((i - 1) \div 4)
                  r == (i - 1) % 4
                  a0 == s[c + r + 1]
                  a1 == s[c + ((r + 1) % 4) + 1]
                  a2 == s[c + ((r + 2) % 4) + 1]
                  a3 == s[c + ((r + 3) % 4) + 1]
              IN  Xor(Xor(XTime(a0), Xor(XTime(a1), a1)), Xor(a2, a3))])

\* the key schedule: w holds the words made so far, rc is the round
\* constant of the next word that takes one; Nk is the number of words of
\* the key
RECURSIVE KeyExpansion(_, _, _)
KeyExpansion(w, Nk, rc) ==
    LET i == Len(w) \div 4
    IN  IF i = 4 * (Nk + 7) THEN w
        ELSE LET prev == SubSeq(w, (4 * i) - 3, 4 * i)
                 back == SubSeq(w, (4 * (i - Nk)) + 1, (4 * (i - Nk)) + 4)
                 rot  == SubBytes(<< prev[2], prev[3], prev[4], prev[1] >>)
                 temp == IF i % Nk = 0
                         THEN << Xor(rot[1], rc), rot[2], rot[3], rot[4] >>
                         ELSE IF Nk > 6 /\ i % Nk = 4 THEN SubBytes(prev)
                         ELSE prev
             IN  KeyExpansion(w \o XorSeq(back, temp), Nk,
                              IF i % Nk = 0 THEN XTime(rc) ELSE rc)

\* the rounds r..Nr of the cipher on the state s (16 bytes, column by
\* column), with the round keys rk
RECURSIVE Rounds(_, _, _, _)
Rounds(s, rk, r, Nr) ==
    IF Len(s) # 16 \/ r > Nr THEN s
    ELSE LET shifted == ShiftRows(SubBytes(s))
             mixed == IF r < Nr THEN MixColumns(shifted) ELSE shifted
         IN  Rounds(XorSeq(mixed, SubSeq(rk, (16 * r) + 1, (16 * r) + 16)),
                    rk, r + 1, Nr)

\* the cipher of FIPS 197 on one block: AES-128, -192 or -256 by the
\* length of the key
Cipher(key, block) ==
    LET Nk == Len(key) \div 4
        rk == KeyExpansion(key, Nk, 1)
    IN  Rounds(XorSeq(block, SubSeq(rk, 1, 16)), rk, 1, Nk + 6)

\* the serial number 'AB12CD34' of the peripherals
SerialGood == << 65, 66, 49, 50, 67, 68, 51, 52 >>

\* two values of get_random_bytes(IV_LENGTH)
IV1 == << 1, 2, 3, 4, 5, 6, 7, 8, 9, 10, 11, 12, 13, 14, 15, 16 >>

IV2 == << 16, 15, 14, 13, 12, 11, 10, 9, 8, 7, 6, 5, 4, 3, 2, 1 >>

\* the blocks the sessions encipher, enciphered once: under the master
\* key, the key of SerialGood and the 32-byte key of a 16-character serial
CipherKnown ==
    LET serial_str == SerialGood \o SerialGood
        k == Cipher(MasterKey, serial_str)
    IN  {[key |-> key, block |-> block, out |-> Cipher(key, block)] :
            key \in {MasterKey, k, k \o k},
            block \in {serial_str, IV1, IV2}}

\* cipher.encrypt of one block by the cipher object AES.new(key, ...) made
AESBlock(key, block) ==
    IF \E e \in CipherKnown : e.key = key /\ e.block = block
    THEN (CHOOSE e \in CipherKnown : e.key = key /\ e.block = block).out
    ELSE Cipher(key, block)

\* AES.new(key, ...): len(key) must be 16, 24 or 32 (ValueError), and the
\* key a bytes object (TypeError); None has no len
AESNewError(key) ==
    IF key.t = "none" THEN "TypeError"
    ELSE IF Len(key.v) \notin {16, 24, 32} THEN "ValueError"
    ELSE IF key.t # "bytes" THEN "TypeError"
    ELSE "none"

\* cipher.encrypt(data) in ECB mode, data a whole number of blocks
RECURSIVE ECBEncrypt(_, _)
ECBEncrypt(key, data) ==
    IF Len(data) = 0 THEN << >>
    ELSE AESBlock(key, SubSeq(data, 1, 16))
         \o ECBEncrypt(key, SubSeq(data, 17, Len(data)))

\* the OFB keystream: n bytes of E(iv), E(E(iv)), ...
RECURSIVE OFBStream(_, _, _)
OFBStream(key, iv, n) ==
    IF n <= 0 THEN << >>
    ELSE LET o == AESBlock(key, iv)
         IN  SubSeq(o, 1, Min(n, 16)) \o OFBStream(key, o, n - 16)

\* cipher.encrypt / cipher.decrypt in OFB mode (the same operation)
OFBApply(key, iv, data) ==
    LET ks == OFBStream(key, iv, Len(data))
    IN  [i \in 1..Len(data) |-> Xor(data[i], ks[i])]

\* ------------------------------------------------------------------------
\* protocol.py: key derivation and packet framing
\* ------------------------------------------------------------------------

\* str.encode('utf-8') of a str of code points below 2048
RECURSIVE Utf8Encode(_)
Utf8Encode(str) ==
    IF Len(str) = 0 THEN << >>
    ELSE (IF Head(str) < 128 THEN << Head(str) >>
          ELSE << 192 + (Head(str) \div 64), 128 + (Head(str) % 64) >>)
         \o Utf8Encode(Tail(str))

\* derive_shared_key(serial): [exc, val]
derive_shared_key(serial) ==
    LET serial_str == Utf8Encode(serial \o serial)
    IN  IF Len(serial_str) % 16 # 0
        THEN [exc |-> "ValueError", val |-> NoneVal]
        ELSE [exc |-> "none", val |-> Bytes(ECBEncrypt(MasterKey, serial_str))]

\* decrypt_packet accepting a packet that is an IV and nothing else
decrypt_packet_lt(packet, device_key) ==
    IF Len(packet) < IV_LENGTH
    THEN [exc |-> "ValueError", val |-> << >>]
    ELSE LET data == SubSeq(packet, 1, Len(packet) - IV_LENGTH)
             iv   == SubSeq(packet, Len(packet) - IV_LENGTH + 1, Len(packet))
         IN  IF AESNewError(device_key) # "none"
             THEN [exc |-> AESNewError(device_key), val |-> << >>]
             ELSE [exc |-> "none", val |-> OFBApply(device_key.v, iv, data)]

\* decrypt_packet(packet, device_key): [exc, val]
decrypt_packet(packet, device_key) ==
    IF Len(packet) <= IV_LENGTH
    THEN [exc |-> "ValueError", val |-> << >>]
    ELSE LET data == SubSeq(packet, 1, Len(packet) - IV_LENGTH)
             iv   == SubSeq(packet, Len(packet) - IV_LENGTH + 1, Len(packet))
         IN  IF AESNewError(device_key) # "none"
             THEN [exc |-> AESNewError(device_key), val |-> << >>]
             ELSE [exc |-> "none", val |-> OFBApply(device_key.v, iv, data)]

\* encrypt_packet without the padding of short plaintexts
encrypt_packet_nopad(plaintext, device_key, iv) ==
    IF AESNewError(device_key) # "none"
    THEN [exc |-> AESNewError(device_key), val |-> << >>]
    ELSE [exc |-> "none",
          val |-> OFBApply(device_key.v, iv, plaintext) \o iv]

\* encrypt_packet with a constant IV in place of the random one
encrypt_packet_fixed_iv(plaintext, device_key, iv) ==
    LET padded == IF Len(plaintext) < 16 THEN Ljust(plaintext, 16)
                  ELSE plaintext
    IN  IF AESNewError(device_key) # "none"
        THEN [exc |-> AESNewError(device_key), val |-> << >>]
        ELSE [exc |-> "none",
              val |-> LET zero == [i \in 1..IV_LENGTH |-> 0]
                      IN  OFBApply(device_key.v, zero, padded) \o zero]

\* encrypt_packet(plaintext, device_key): [exc, val]; iv is the value
\* get_random_bytes(IV_LENGTH) returned
encrypt_packet(plaintext, device_key, iv) ==
    LET padded == IF Len(plaintext) < 16 THEN Ljust(plaintext, 16)
                  ELSE plaintext
    IN  IF AESNewError(device_key) # "none"
        THEN [exc |-> AESNewError(device_key), val |-> << >>]
        ELSE [exc |-> "none",
              val |-> OFBApply(device_key.v, iv, padded) \o iv]

\* ------------------------------------------------------------------------
\* protocol.py: message catalogue
\* ------------------------------------------------------------------------

\* the values of the enumeration PaxMessageType
PaxMessageType ==
    {1, 2, 3, 4, 5, 6, 7, 8, 9, 10, 17, 19, 20, 21, 23, 24, 25, 27, 28,
     30, 31, 32, 40, 254}

\* the members whose payload is one raw byte, with the text of the result
ByteFieldLabel ==
    [t \in {3, 19, 20, 21, 23, 27, 30, 32} |->
        CASE t = 3  -> "Battery Level"
          [] t = 19 -> "Dynamic Mode"
          [] t = 20 -> "Color Theme"
          [] t = 21 -> "Brightness"
          [] t = 23 -> "Haptic Mode"
          [] t = 27 -> "UI Mode"
          [] t = 30 -> "Low SoC Mode"
          [] t = 32 -> "Heating State"]

TemperatureLabel ==
    [t \in {1, 2, 31} |->
        CASE t = 2  -> "Temperature Set Point"
          [] t = 1  -> "Actual Temperature"
          [] t = 31 -> "Current Target Temperature"]

\* a result of handle_incoming_message: the exception raised, or the text
\* returned, given as its fixed part (label), the number formatted into it
\* (n, -1 when there is none; a temperature is in tenths of a degree) and
\* the set of enumeration members formatted into it (attrs)
Raised(e) == [exc |-> e, label |-> "", n |-> -1, attrs |-> {}]
Returned(l, k, a) == [exc |-> "none", label |-> l, n |-> k, attrs |-> a]

\* the bit positions 0..63 set in the little-endian 8-byte field q
BitsOf(q) ==
    {attr \in 0..63 : (q[(attr \div 8) + 1] \div (2 ^ (attr % 8))) % 2 = 1}

\* struct.unpack('<Q', data[1:9]) followed by the set comprehension
\* {PaxMessageType(attr) for attr in range(64) if bitmask & (1 << attr)}
DecodeBitmask(label, data) ==
    LET q == Slice(data, 1, 9)
    IN  IF Len(q) # 8 THEN Raised("struct.error")
        ELSE IF ~(BitsOf(q) \subseteq PaxMessageType) THEN Raised("ValueError")
        ELSE Returned(label, -1, BitsOf(q))

\* struct.unpack('<H', data[1:3])[0] / 10.0
DecodeTemperature(label, data) ==
    LET h == Slice(data, 1, 3)
    IN  IF Len(h) # 2 THEN Raised("struct.error")
        ELSE Returned(label, h[1] + (256 * h[2]), {})

\* handle_incoming_message(data)
handle_incoming_message(data) ==
    IF Len(data) = 0 THEN Raised("IndexError")
    ELSE IF data[1] \notin PaxMessageType
    THEN Returned("Unknown message type (byte)", data[1], {})
    ELSE LET message_type == data[1]
         IN  IF message_type \in {3, 7, 6, 19, 20, 21, 23, 27, 30, 32}
                /\ Len(data) < 2
             THEN Raised("IndexError")
             ELSE IF message_type = 7
             THEN Returned(IF data[2] # 0 THEN "Charging: Yes"
                           ELSE "Charging: No", -1, {})
             ELSE IF message_type = 6
             THEN Returned(IF data[2] # 0 THEN "Device is Locked"
                           ELSE "Device is Unlocked", -1, {})
             ELSE IF message_type \in DOMAIN TemperatureLabel
             THEN DecodeTemperature(TemperatureLabel[message_type], data)
             ELSE IF message_type = 24
             THEN DecodeBitmask("Supported Attributes", data)
             ELSE IF message_type = 254
             THEN DecodeBitmask("Updated Attributes", data)
             ELSE IF message_type \in DOMAIN ByteFieldLabel
             THEN Returned(ByteFieldLabel[message_type], data[2], {})
             ELSE Returned("Unknown message type (member)", message_type, {})

\* pad_to_16_bytes(data)
pad_to_16_bytes(data) == Ljust(data, 16)

\* int(x) for the quotient x = a / b, b > 0: truncation towards zero
IntOf(a, b) == IF a >= 0 THEN a \div b ELSE -((-a) \div b)

\* encode_temperature_message storing the 16-bit field high byte first
encode_temperature_message_be(temperature) ==
    LET temp_encoded == IntOf(temperature, 10)
    IN  IF temp_encoded \notin 0..65535
        THEN [exc |-> "struct.error", val |-> << >>]
        ELSE [exc |-> "none",
              val |-> pad_to_16_bytes(<< 2, temp_encoded \div 256,
                                        temp_encoded % 256 >>)]

\* encode_temperature_message(temperature): [exc, val].  The temperature
\* is given in hundredths of a degree, so temperature * 10 is the quotient
\* temperature / 10 of the model; for a temperature that is a whole number
\* of tenths the float product is that whole number exactly
encode_temperature_message(temperature) ==
    LET temp_encoded == IntOf(temperature, 10)
    IN  IF temp_encoded \notin 0..65535
        THEN [exc |-> "struct.error", val |-> << >>]
        ELSE [exc |-> "none",
              val |-> pad_to_16_bytes(<< 2, temp_encoded % 256,
                                        temp_encoded \div 256 >>)]

\* encode_lock_message(lock)
encode_lock_message(lock) == << 6, IF lock THEN 1 ELSE 0 >>

\* the value of byte j (0 the lowest) of the bitmask with the bits in S set
MaskByte(S, j) ==
    LET bit(k) == IF (8 * j) + k \in S THEN 2 ^ k ELSE 0
    IN  bit(0) + bit(1) + bit(2) + bit(3) + bit(4) + bit(5) + bit(6) + bit(7)

\* encode_status_update_message storing the bitmask high byte first
encode_status_update_message_be(attributes) ==
    LET kept == {attr \in attributes : attr <= 63}
    IN  [exc |-> "none",
         val |-> pad_to_16_bytes(<< 254 >> \o [j \in 1..8 |-> MaskByte(kept, 8 - j)])]

\* encode_status_update_message(attributes): [exc, val]; attributes is the
\* set of the values of the members given
encode_status_update_message(attributes) ==
    LET kept == {attr \in attributes : attr <= 63}
    IN  [exc |-> "none",
         val |-> pad_to_16_bytes(<< 254 >> \o [j \in 1..8 |-> MaskByte(kept, j - 1)])]

\* the values of the enumeration DynamicMode
DynamicMode == {0, 1, 2, 3, 4}

\* decode_dynamic_mode(data): the exception raised, or the member returned
decode_dynamic_mode(data) ==
    IF Len(data) < 2 THEN Raised("ValueError")
    ELSE IF data[2] \notin DynamicMode THEN Raised("ValueError")
    ELSE Returned("DynamicMode", data[2], {})

\* ------------------------------------------------------------------------
\* probe.py: the identity the vendor's devices report
\* ------------------------------------------------------------------------

ExpectedManufacturer == "PAX Labs, Inc"
ModelNameEra == "ERA"
ModelNamePax3 == "PAX3"

\* ------------------------------------------------------------------------
\* The peripheral: its GATT table and the values of its characteristics
\* ------------------------------------------------------------------------

\* a PAX Era exposing both services and every characteristic
EraDevice ==
    [info |-> TRUE, pax |-> TRUE,
     infoChars |-> << "manufacturer", "model", "serial", "hw", "sw" >>,
     manufacturer |-> ExpectedManufacturer, model |-> ModelNameEra,
     serial |-> SerialGood,
     paxChars |-> {"read", "write", "notify"}]

\* the peripherals a session is connected to
Devices ==
    { EraDevice,
      [EraDevice EXCEPT !.model = ModelNamePax3],
      [EraDevice EXCEPT !.manufacturer = "Acme"],
      [EraDevice EXCEPT !.model = "PAX2"],
      [EraDevice EXCEPT !.info = FALSE],
      [EraDevice EXCEPT !.pax = FALSE],
      [EraDevice EXCEPT !.infoChars = << "model", "serial" >>],
      [EraDevice EXCEPT !.infoChars = << "manufacturer", "serial" >>],
      [EraDevice EXCEPT !.infoChars = << "manufacturer", "model" >>],
      [EraDevice EXCEPT !.serial = << >>],
      [EraDevice EXCEPT !.serial = << 65, 66, 67 >>],
      [EraDevice EXCEPT !.serial = SerialGood \o SerialGood],
      [EraDevice EXCEPT !.paxChars = {"write", "notify"}],
      [EraDevice EXCEPT !.paxChars = {"read", "notify"}],
      [EraDevice EXCEPT !.paxChars = {"read", "write"}] }

\* the key the peripheral encrypts with
PeripheralKey == derive_shared_key(SerialGood).val.v

\* the values get_random_bytes(IV_LENGTH) returns
RandomIVs == {IV1, IV2}

\* the peripheral's frame for a plaintext: ciphertext || iv
FrameOf(plaintext) == OFBApply(PeripheralKey, IV1, plaintext) \o IV1

\* the values a read of the read characteristic returns: a battery report,
\* a message with a tag byte outside the enumeration, a frame of 16 bytes
ReadFrames ==
    { FrameOf(Ljust(<< 3, 80 >>, 16)),
      FrameOf(Ljust(<< 99, 1 >>, 16)),
      IV1 }

\* the outcomes of client.read_gatt_char(self.read_characteristic)
ReadOutcomes ==
    {[exc |-> "none", val |-> f] : f \in ReadFrames}
        \cup {[exc |-> "BleakError", val |-> << >>]}

\* the payloads a notification carries: empty, or a frame of its own
NotifyPayloads == { << >>, FrameOf(Ljust(<< 6, 1 >>, 16)) }

\* ------------------------------------------------------------------------
\* main.py: PaxDevice
\* ------------------------------------------------------------------------

VARIABLES
    device,                 \* the peripheral at the address
    client,                 \* self.client: "None" or "BleakClient"
    connected,              \* the GATT connection of self.client is held
    device_key,             \* self.device_key
    serial_number,          \* self.serial_number
    read_characteristic,    \* self.read_characteristic is not None
    write_characteristic,   \* self.write_characteristic is not None
    notify_characteristic,  \* self.notify_characteristic is not None
    subscribed,             \* start_notify has registered notification_handler
    pc,                     \* position of the caller's coroutine
    lastOp,                 \* the method the caller invoked last
    err,                    \* the exception that method raised, or "none"
    handlers,               \* the notification_handler tasks, in arrival order
    reads,                  \* reads of the read characteristic issued so far
    sink,                   \* the lines printed by the handlers, in order
    sent,                   \* the calls of send_message that ended, in order
    writing,                \* the write send_message is suspended at, if any
    closing,                \* disconnect is suspended at client.disconnect()
    console,                \* the byte values printed by the other methods
    cop,                    \* the protocol.py function applied to carg
    carg,                   \* the arguments drawn for a protocol.py function
    cres,                   \* what that function returned or raised
    prober,                 \* the file whose PaxDeviceProber is in use
    states,                 \* PaxDeviceProber.states: the ProbeStates listed
    probes                  \* the calls of probe, in the order they began

vars ==
    << device, client, connected, device_key, serial_number,
       read_characteristic, write_characteristic, notify_characteristic,
       subscribed, pc, lastOp, err, handlers, reads, sink, sent, writing,
       closing, console,
       cop, carg, cres, prober, states, probes >>

\* the variables of the calls of protocol.py functions on their own
codecVars == << cop, carg, cres >>

\* the variables of a PaxDeviceProber
proberVars == << prober, states, probes >>

sessionVars ==
    << client, connected, device_key, serial_number,
       read_characteristic, write_characteristic, notify_characteristic,
       subscribed, pc, lastOp, err >>

\* PaxDevice.__init__(protocol.DEVICE_KEY_KEY), for the peripheral d
InitWith(d) ==
    /\ device = d
    /\ client = "None"
    /\ connected = FALSE
    /\ device_key = DEVICE_KEY_KEY
    /\ serial_number = NoneVal
    /\ read_characteristic = FALSE
    /\ write_characteristic = FALSE
    /\ notify_characteristic = FALSE
    /\ subscribed = FALSE
    /\ pc = "init"
    /\ lastOp = "__init__"
    /\ err = "none"
    /\ handlers = << >>
    /\ reads = 0
    /\ sink = << >>
    /\ sent = << >>
    /\ writing = << >>
    /\ closing = FALSE
    /\ console = {}

\* no protocol.py function is called on its own
CodecIdle ==
    /\ cop = "none"
    /\ carg = << >>
    /\ cres = << >>

\* no PaxDeviceProber has been constructed
ProberIdle ==
    /\ prober = "none"
    /\ states = << >>
    /\ probes = << >>

Init == \E d \in Devices : InitWith(d) /\ CodecIdle /\ ProberIdle

\* the caller is between two calls on the session
Idle ==
    /\ pc \in {"init", "ready", "faulted", "closed"}
    /\ writing = << >>
    /\ ~closing

\* connect(address) up to the call of discover_services; every caller in
\* main.py calls it once, on a session it has just constructed
connect(ok) ==
    /\ pc = "init"
    /\ client = "None"
    /\ client' = "BleakClient"
    /\ lastOp' = "connect"
    /\ IF ok
       THEN /\ connected' = TRUE
            /\ pc' = "discover_services"
            /\ err' = "none"
       ELSE /\ connected' = FALSE
            /\ pc' = "faulted"
            /\ err' = "BleakError"
    /\ UNCHANGED << device, device_key, serial_number, read_characteristic,
                    write_characteristic, notify_characteristic, subscribed,
                    handlers, reads, sink >>
    /\ UNCHANGED << sent, writing, closing, console >>
    /\ UNCHANGED codecVars
    /\ UNCHANGED proberVars

\* discover_services up to the call of discover_device_info
discover_services(ok) ==
    /\ pc = "discover_services"
    /\ IF ~ok
       THEN pc' = "faulted" /\ err' = "BleakError"
       ELSE IF ~device.info \/ ~device.pax
       THEN pc' = "faulted" /\ err' = "Exception"
       ELSE pc' = "discover_device_info" /\ err' = "none"
    /\ UNCHANGED << device, client, connected, device_key, serial_number,
                    read_characteristic, write_characteristic,
                    notify_characteristic, subscribed, lastOp, handlers,
                    reads, sink >>
    /\ UNCHANGED << sent, writing, closing, console >>
    /\ UNCHANGED codecVars
    /\ UNCHANGED proberVars

\* the position of characteristic c in the service's list, 0 when absent
IndexOf(chars, c) ==
    IF \E i \in 1..Len(chars) : chars[i] = c
    THEN CHOOSE i \in 1..Len(chars) : chars[i] = c
    ELSE 0

\* discover_device_info(info_service); failAt is the position of the
\* characteristic whose read raises, 0 when every read succeeds
discover_device_info(failAt) ==
    /\ pc = "discover_device_info"
    /\ failAt \in 0..Len(device.infoChars)
    /\ LET at == IndexOf(device.infoChars, "serial")
           wasRead == at # 0 /\ (failAt = 0 \/ at < failAt)
           serial == IF wasRead THEN Str(device.serial) ELSE serial_number
           derived == derive_shared_key(serial.v)
       IN  /\ serial_number' = serial
           /\ IF failAt # 0
              THEN /\ pc' = "faulted" /\ err' = "BleakError"
                   /\ UNCHANGED device_key
              ELSE IF serial.t = "none" \/ Len(serial.v) = 0
              THEN /\ pc' = "discover_pax_service" /\ err' = "none"
                   /\ UNCHANGED device_key
              ELSE IF derived.exc # "none"
              THEN /\ pc' = "faulted" /\ err' = derived.exc
                   /\ UNCHANGED device_key
              ELSE /\ pc' = "discover_pax_service" /\ err' = "none"
                   /\ device_key' = derived.val
           /\ console' = console
                \cup (IF wasRead
                      THEN {[label |-> "Serial Number", v |-> serial.v]}
                      ELSE {})
                \cup (IF failAt = 0 /\ serial.t # "none" /\ Len(serial.v) # 0
                         /\ derived.exc = "none"
                      THEN {[label |-> "Derived Device Key",
                             v |-> Hex(derived.val.v)]}
                      ELSE {})
    /\ UNCHANGED << device, client, connected, read_characteristic,
                    write_characteristic, notify_characteristic, subscribed,
                    lastOp, handlers, reads, sink, sent, writing,
                    closing >>
    /\ UNCHANGED codecVars
    /\ UNCHANGED proberVars

\* discover_pax_service(pax_service); ok is the success of start_notify
discover_pax_service(ok) ==
    /\ pc = "discover_pax_service"
    /\ read_characteristic' =
           (read_characteristic \/ "read" \in device.paxChars)
    /\ write_characteristic' =
           (write_characteristic \/ "write" \in device.paxChars)
    /\ notify_characteristic' =
           (notify_characteristic \/ "notify" \in device.paxChars)
    /\ IF ~(read_characteristic' /\ write_characteristic'
               /\ notify_characteristic')
       THEN pc' = "faulted" /\ err' = "Exception" /\ UNCHANGED subscribed
       ELSE IF ~ok
       THEN pc' = "faulted" /\ err' = "BleakError" /\ UNCHANGED subscribed
       ELSE pc' = "ready" /\ err' = "none" /\ subscribed' = TRUE
    /\ UNCHANGED << device, client, connected, device_key, serial_number,
                    lastOp, handlers, reads, sink >>
    /\ UNCHANGED << sent, writing, closing, console >>
    /\ UNCHANGED codecVars
    /\ UNCHANGED proberVars

\* the line a notification_handler prints for the outcome r of its read:
\* the text returned by handle_incoming_message for the decrypted data
\* ("Received: ..."), or the exception caught by its except clause
\* ("Error processing notification: ...")
notification_output(r, key) ==
    IF r.exc # "none" THEN Raised(r.exc)
    ELSE LET decrypted == decrypt_packet(r.val, key)
         IN  IF decrypted.exc # "none" THEN Raised(decrypted.exc)
             ELSE handle_incoming_message(decrypted.val)

\* the peripheral notifies: the transport starts a notification_handler
\* task for the registered callback, with the notification's payload
notify(data) ==
    /\ connected
    /\ subscribed
    /\ Len(handlers) < MaxNotifs
    /\ handlers' = Append(handlers, [pc |-> "start", data |-> data])
    /\ UNCHANGED << device, reads, sink >>
    /\ UNCHANGED sessionVars
    /\ UNCHANGED << sent, writing, closing, console >>
    /\ UNCHANGED codecVars
    /\ UNCHANGED proberVars

\* notification_handler up to its await: the read of the read
\* characteristic is issued; on a released connection the call raises and
\* the except clause prints the error
notification_handler_read(i) ==
    /\ i \in 1..Len(handlers)
    /\ handlers[i].pc = "start"
    /\ reads' = reads + 1
    /\ IF connected
       THEN /\ handlers' = [handlers EXCEPT ![i].pc = "reading"]
            /\ UNCHANGED sink
       ELSE LET r == [exc |-> "BleakError", val |-> << >>]
            IN  /\ handlers' = [handlers EXCEPT ![i].pc = "done"]
                /\ sink' = Append(sink,
                       [n |-> i, read |-> r,
                        out |-> notification_output(r, device_key)])
    /\ UNCHANGED device
    /\ UNCHANGED sessionVars
    /\ UNCHANGED << sent, writing, closing, console >>
    /\ UNCHANGED codecVars
    /\ UNCHANGED proberVars

\* notification_handler taking the notification's own payload as the data
\* to decrypt, in place of what the read returned
notification_handler_resume_payload(i, r) ==
    /\ i \in 1..Len(handlers)
    /\ handlers[i].pc = "reading"
    /\ r \in ReadOutcomes
    /\ handlers' = [handlers EXCEPT ![i].pc = "done"]
    /\ sink' = Append(sink,
           [n |-> i, read |-> r,
            out |-> notification_output(
                        [exc |-> r.exc, val |-> handlers[i].data],
                        device_key)])
    /\ UNCHANGED << device, reads >>
    /\ UNCHANGED sessionVars
    /\ UNCHANGED << sent, writing, closing, console >>
    /\ UNCHANGED codecVars
    /\ UNCHANGED proberVars

\* notification_handler whose except clause gives the connection up
notification_handler_resume_fatal(i, r) ==
    /\ i \in 1..Len(handlers)
    /\ handlers[i].pc = "reading"
    /\ r \in ReadOutcomes
    /\ handlers' = [handlers EXCEPT ![i].pc = "done"]
    /\ sink' = Append(sink,
           [n |-> i, read |-> r, out |-> notification_output(r, device_key)])
    /\ connected' = (connected /\ notification_output(r, device_key).exc = "none")
    /\ UNCHANGED << device, reads, client, device_key, serial_number,
                    read_characteristic, write_characteristic,
                    notify_characteristic, subscribed, pc, lastOp, err >>
    /\ UNCHANGED << sent, writing, closing, console >>
    /\ UNCHANGED codecVars
    /\ UNCHANGED proberVars

\* notification_handler from the completion r of its read to its end:
\* decrypt_packet, process_packet and the print, or the except clause
notification_handler_resume(i, r) ==
    /\ i \in 1..Len(handlers)
    /\ handlers[i].pc = "reading"
    /\ r \in ReadOutcomes
    /\ handlers' = [handlers EXCEPT ![i].pc = "done"]
    /\ sink' = Append(sink,
           [n |-> i, read |-> r, out |-> notification_output(r, device_key)])
    /\ UNCHANGED << device, reads >>
    /\ UNCHANGED sessionVars
    /\ UNCHANGED << sent, writing, closing, console >>
    /\ UNCHANGED codecVars
    /\ UNCHANGED proberVars

\* disconnect() up to `await self.client.disconnect()`: on a session that
\* was never connected self.client is None and the attribute access raises;
\* otherwise the call is suspended with the connection as it was, and the
\* notifications and the handlers go on
disconnect ==
    /\ Idle
    /\ lastOp' = "disconnect"
    /\ IF client = "None"
       THEN /\ err' = "AttributeError"
            /\ UNCHANGED closing
       ELSE /\ closing' = TRUE
            /\ UNCHANGED err
    /\ UNCHANGED << device, client, connected, device_key, serial_number,
                    read_characteristic, write_characteristic,
                    notify_characteristic, subscribed, pc, handlers, reads,
                    sink >>
    /\ UNCHANGED << sent, writing, console >>
    /\ UNCHANGED codecVars
    /\ UNCHANGED proberVars

\* the exception of client.disconnect(): the transport fails to release
\* the connection it holds; a client that holds none has nothing to release
disconnect_outcome(ok) == IF connected /\ ~ok THEN "BleakError" ELSE "none"

\* the end of disconnect: client.disconnect() returns, the connection
\* released, or raises, the connection held, and disconnect with it
disconnect_resume(ok) ==
    /\ closing
    /\ closing' = FALSE
    /\ err' = disconnect_outcome(ok)
    /\ IF disconnect_outcome(ok) = "none"
       THEN /\ connected' = FALSE
            /\ pc' = "closed"
       ELSE UNCHANGED << connected, pc >>
    /\ UNCHANGED << device, client, device_key, serial_number,
                    read_characteristic, write_characteristic,
                    notify_characteristic, subscribed, lastOp, handlers,
                    reads, sink >>
    /\ UNCHANGED << sent, writing, console >>
    /\ UNCHANGED codecVars
    /\ UNCHANGED proberVars

\* the frame send_message(message) makes, with the message and the value
\* get_random_bytes returned to encrypt_packet; exc is the exception raised
\* before the transport is called: that of encrypt_packet, or that of
\* self.client.write_gatt_char when self.client is None
send_outcome(message, iv) ==
    LET e == encrypt_packet(message, device_key, iv)
    IN  [message |-> message,
         iv |-> iv,
         frame |-> e.val,
         exc |-> IF e.exc # "none" THEN e.exc
                 ELSE IF client = "None" THEN "AttributeError"
                 ELSE "none"]

\* send_message(message), called by the caller between two other calls,
\* up to `await self.client.write_gatt_char(...)`: the frame is made and
\* printed, and the call ends with an exception or is suspended at the
\* write
send_message(message, iv) ==
    /\ Idle
    /\ Len(sent) < MaxSends
    /\ lastOp' = "send_message"
    /\ \E o \in {send_outcome(message, iv)} :
           /\ console' = console
                \cup (IF Len(o.frame) # 0
                      THEN {[label |-> "Sending message", v |-> Hex(o.frame)]}
                      ELSE {})
           /\ IF o.exc # "none"
              THEN /\ err' = o.exc
                   /\ sent' = Append(sent, o)
                   /\ UNCHANGED writing
              ELSE /\ writing' = << o >>
                   /\ UNCHANGED << err, sent >>
    /\ UNCHANGED << device, client, connected, device_key, serial_number,
                    read_characteristic, write_characteristic,
                    notify_characteristic, subscribed, pc, handlers, reads,
                    sink, closing >>
    /\ UNCHANGED codecVars
    /\ UNCHANGED proberVars

\* the exception of the write: a client that holds no connection, or is
\* given None for the characteristic, raises; ok is the transport's success
write_outcome(ok) ==
    IF ~connected \/ ~write_characteristic \/ ~ok THEN "BleakError"
    ELSE "none"

\* the end of send_message giving the connection up when the write fails
send_message_resume_fatal(ok) ==
    /\ writing # << >>
    /\ err' = write_outcome(ok)
    /\ sent' = Append(sent, [writing[1] EXCEPT !.exc = write_outcome(ok)])
    /\ writing' = << >>
    /\ connected' = (connected /\ write_outcome(ok) = "none")
    /\ UNCHANGED << device, client, device_key, serial_number,
                    read_characteristic, write_characteristic,
                    notify_characteristic, subscribed, pc, lastOp, handlers,
                    reads, sink, closing, console >>
    /\ UNCHANGED codecVars
    /\ UNCHANGED proberVars

\* the end of send_message: write_gatt_char(..., response=False) returns
\* or raises, and send_message with it
send_message_resume(ok) ==
    /\ writing # << >>
    /\ err' = write_outcome(ok)
    /\ sent' = Append(sent, [writing[1] EXCEPT !.exc = write_outcome(ok)])
    /\ writing' = << >>
    /\ UNCHANGED << device, client, connected, device_key, serial_number,
                    read_characteristic, write_characteristic,
                    notify_characteristic, subscribed, pc, lastOp, handlers,
                    reads, sink, closing, console >>
    /\ UNCHANGED codecVars
    /\ UNCHANGED proberVars

Next ==
    \/ \E ok \in BOOLEAN : connect(ok)
    \/ \E ok \in BOOLEAN : discover_services(ok)
    \/ \E failAt \in 0..5 : discover_device_info(failAt)
    \/ \E ok \in BOOLEAN : discover_pax_service(ok)
    \/ \E data \in NotifyPayloads : notify(data)
    \/ \E i \in 1..MaxNotifs : notification_handler_read(i)
    \/ \E i \in 1..MaxNotifs : \E r \in ReadOutcomes :
           notification_handler_resume(i, r)
    \/ disconnect
    \/ \E ok \in BOOLEAN : disconnect_resume(ok)

\* the handshake and the notification pipeline, for every peripheral
Spec == Init /\ [][Next]_vars

\* the peripherals of the behaviours with calls of send_message: complete,
\* without notify characteristic, without serial characteristic, without
\* Device-Info service
SendDevices ==
    { EraDevice,
      [EraDevice EXCEPT !.paxChars = {"read", "write"}],
      [EraDevice EXCEPT !.infoChars = << "manufacturer", "model" >>],
      [EraDevice EXCEPT !.info = FALSE] }

\* the messages the callers in main.py send: lock
SendMessages == { encode_lock_message(TRUE) }

SendInit == \E d \in SendDevices : InitWith(d) /\ CodecIdle /\ ProberIdle

SendNext ==
    \/ \E ok \in BOOLEAN : connect(ok)
    \/ \E ok \in BOOLEAN : discover_services(ok)
    \/ \E failAt \in 0..5 : discover_device_info(failAt)
    \/ \E ok \in BOOLEAN : discover_pax_service(ok)
    \/ \E data \in NotifyPayloads :
           Len(handlers) < MaxSendNotifs /\ notify(data)
    \/ \E i \in 1..MaxNotifs : notification_handler_read(i)
    \/ \E i \in 1..MaxNotifs : \E r \in ReadOutcomes :
           notification_handler_resume(i, r)
    \/ disconnect
    \/ \E ok \in BOOLEAN : disconnect_resume(ok)
    \/ \E message \in SendMessages : \E iv \in RandomIVs :
           send_message(message, iv)
    \/ \E ok \in BOOLEAN : send_message_resume(ok)

\* the session with its callers' calls of send_message
SendSpec == SendInit /\ [][SendNext]_vars

\* ------------------------------------------------------------------------
\* protocol.py: the functions called on their own
\* ------------------------------------------------------------------------

\* the arguments of one call: the function, and those of data (bytes or
\* str), key, iv, set (of enumeration values) and num it takes
Arg(fn, data, key, iv, set, num) ==
    [fn |-> fn, data |-> data, key |-> key, iv |-> iv, set |-> set,
     num |-> num]

\* n bytes that differ from one position to the next
Pattern(seed, n) == [i \in 1..n |-> (seed + (37 * i)) % 256]

\* a 16-byte key other than the peripheral's
OtherKey == Pattern(200, 16)

CodecKeys == {Bytes(PeripheralKey), Bytes(OtherKey)}

\* the windows of temperatures, in hundredths of a degree: around 0,
\* 25.5 (where the low byte of the field overflows), 99.9 and 6553.5
TempInputs ==
    LET window(c) == (c - TempSpan)..(c + TempSpan)
    IN  window(0) \cup window(2555) \cup window(9990) \cup window(655350)

\* the sets of at most MaxAttrs members of PaxMessageType
RECURSIVE SetsUpTo(_)
SetsUpTo(k) ==
    IF k = 0 THEN {{}}
    ELSE LET smaller == SetsUpTo(k - 1)
         IN  smaller \cup {S \cup {x} : S \in smaller, x \in PaxMessageType}

AttrSets == SetsUpTo(MaxAttrs)

\* the plaintexts given to the decoders: a tag byte alone, and every
\* message of a tag byte and a field byte padded to 16 bytes
DecoderInputs ==
    {<< 19 >>}
        \cup {pad_to_16_bytes(<< tag, b >>) :
                 tag \in PaxMessageType \cup {0, 99},
                 b \in (0..MaxFieldByte) \cup {255}}

CodecInputs ==
    {Arg("derive_shared_key", Pattern(48, n), NoneVal, << >>, {}, 0) :
        n \in 0..MaxSerialLen}
    \cup {Arg("derive_shared_key", serial, NoneVal, << >>, {}, 0) :
            serial \in {SerialGood, SerialGood \o SerialGood}}
    \cup {Arg("decrypt_packet", Pattern(seed, n), key, << >>, {}, 0) :
            seed \in {0, 101}, n \in 0..MaxFrameLen,
            key \in CodecKeys \cup {DEVICE_KEY_KEY}}
    \cup {Arg("encrypt_packet", data, key, iv, {}, 0) :
            data \in {Pattern(7, n) : n \in 0..MaxPlainLen}
                        \cup {encode_lock_message(TRUE)},
            key \in CodecKeys, iv \in RandomIVs}
    \cup {Arg("encode_status_update_message", << >>, NoneVal, << >>, S, 0) :
            S \in AttrSets}
    \cup {Arg("encode_temperature_message", << >>, NoneVal, << >>, {}, h) :
            h \in TempInputs}
    \cup {Arg(fn, data, NoneVal, << >>, {}, 0) :
            fn \in {"decode_dynamic_mode", "handle_incoming_message"},
            data \in DecoderInputs}

\* the arguments of one call are drawn; the session is not used
CodecInit ==
    /\ InitWith(EraDevice)
    /\ cop = "none"
    /\ carg \in CodecInputs
    /\ cres = << >>
    /\ ProberIdle

\* a call of the function the arguments were drawn for
call(fn, result) ==
    /\ cop = "none"
    /\ carg.fn = fn
    /\ cop' = fn
    /\ cres' = result
    /\ UNCHANGED carg
    /\ UNCHANGED sessionVars
    /\ UNCHANGED << device, handlers, reads, sink, sent, writing, closing,
                    console >>
    /\ UNCHANGED proberVars

\* a call of the function `inner`, on what the function `outer` returned
callOn(outer, inner, result) ==
    /\ cop = outer
    /\ cres.exc = "none"
    /\ cop' = inner
    /\ cres' = result
    /\ UNCHANGED carg
    /\ UNCHANGED sessionVars
    /\ UNCHANGED << device, handlers, reads, sink, sent, writing, closing,
                    console >>
    /\ UNCHANGED proberVars

call_derive_shared_key ==
    call("derive_shared_key", derive_shared_key(carg.data))

call_decrypt_packet ==
    call("decrypt_packet", decrypt_packet(carg.data, carg.key))

call_encrypt_packet ==
    call("encrypt_packet", encrypt_packet(carg.data, carg.key, carg.iv))

\* decrypt_packet(encrypt_packet(plaintext, key), key)
call_decrypt_encrypted ==
    callOn("encrypt_packet", "decrypt_packet(encrypt_packet)",
           decrypt_packet(cres.val, carg.key))

call_encode_status_update_message ==
    call("encode_status_update_message",
         encode_status_update_message(carg.set))

\* handle_incoming_message(encode_status_update_message(attributes))
call_decode_status_update ==
    callOn("encode_status_update_message",
           "handle_incoming_message(encode_status_update_message)",
           handle_incoming_message(cres.val))

call_encode_temperature_message ==
    call("encode_temperature_message", encode_temperature_message(carg.num))

\* handle_incoming_message(encode_temperature_message(temperature))
call_decode_temperature ==
    callOn("encode_temperature_message",
           "handle_incoming_message(encode_temperature_message)",
           handle_incoming_message(cres.val))

call_decode_dynamic_mode ==
    call("decode_dynamic_mode", decode_dynamic_mode(carg.data))

call_handle_incoming_message ==
    call("handle_incoming_message", handle_incoming_message(carg.data))

CodecNext ==
    \/ call_derive_shared_key
    \/ call_decrypt_packet
    \/ call_encrypt_packet
    \/ call_decrypt_encrypted
    \/ call_encode_status_update_message
    \/ call_decode_status_update
    \/ call_encode_temperature_message
    \/ call_decode_temperature
    \/ call_decode_dynamic_mode
    \/ call_handle_incoming_message

\* the functions of protocol.py called on drawn arguments
CodecSpec == CodecInit /\ [][CodecNext]_vars

\* ------------------------------------------------------------------------
\* probe.py, connection.py: PaxDeviceProber
\* ------------------------------------------------------------------------

\* None is the empty sequence, any other value the sequence holding it
None == << >>
Some(x) == << x >>

\* the peripherals probed: Era, Pax 3, another manufacturer, another
\* model, no Device-Info service, no model characteristic
ProbeDevices ==
    { EraDevice,
      [EraDevice EXCEPT !.model = ModelNamePax3],
      [EraDevice EXCEPT !.manufacturer = "Acme"],
      [EraDevice EXCEPT !.model = "PAX2"],
      [EraDevice EXCEPT !.info = FALSE],
      [EraDevice EXCEPT !.infoChars = << "manufacturer", "serial" >>] }

\* PaxDeviceProber(): self.states = []
ProbeInit ==
    /\ InitWith(EraDevice)
    /\ CodecIdle
    /\ prober \in {"probe.py", "connection.py"}
    /\ states = << >>
    /\ probes = << >>

\* one invocation of the callback, the two-parameter function
\* lambda device, err: ... that both files pass to probe
Invocation(dev, error) == [device |-> dev, error |-> error]

\* handle_error(device, error, callback): callback(None, error)
handle_error(calls, error) == Append(calls, Invocation(None, Some(error)))

\* handle_success(client, device, state): what it does to a probe with the
\* invocations `calls` so far: whether the state was removed from
\* self.states, the invocations after it and the exception it raised.
\* probe.py calls callback(device, None); connection.py calls
\* callback(device), which the two-parameter callback rejects
handle_success(calls, dev) ==
    IF prober = "probe.py"
    THEN [removed |-> TRUE,
          calls |-> Append(calls, Invocation(Some(dev), None)),
          exc |-> None]
    ELSE [removed |-> TRUE, calls |-> calls, exc |-> Some("TypeError")]

\* perform_probe(client, state) for the manufacturer and model read
perform_probe(calls, manufacturer, model) ==
    IF manufacturer # ExpectedManufacturer
    THEN [removed |-> FALSE,
          calls |-> handle_error(calls, "Invalid manufacturer"),
          exc |-> None]
    ELSE IF model = ModelNameEra
    THEN handle_success(calls, "PaxEraDevice")
    ELSE IF model = ModelNamePax3
    THEN handle_success(calls, "Pax3Device")
    ELSE [removed |-> FALSE,
          calls |-> handle_error(calls, "Unsupported device"),
          exc |-> None]

\* self.states.remove(state), the state of the probe p
Remove(list, p) == SelectSeq(list, LAMBDA q : q # p)

\* the probe p is at the position `at` of the coroutine probe
At(p, at) == p \in 1..Len(probes) /\ probes[p].pc = at

\* an exception is raised inside the `async with` block of the probe p:
\* the block is left through the client's __aexit__; ok tells whether the
\* transport call of the step succeeded
RaiseIn(p, e, ok) ==
    /\ probes' = [probes EXCEPT ![p].pc = "aexit", ![p].exc = Some(e),
                                ![p].failed = probes[p].failed \/ ~ok]
    /\ UNCHANGED states

\* the Device-Info service and the manufacturer and model characteristics
\* of the peripheral d are found.  probe.py asks the client's collection
\* for the UUIDs; connection.py compares the uuid attribute of a service or
\* characteristic, a str, with a UUID object, and the two are never equal
LookupOk(d) ==
    /\ prober = "probe.py"
    /\ d.info
    /\ \E k \in 1..Len(d.infoChars) : d.infoChars[k] = "manufacturer"
    /\ \E k \in 1..Len(d.infoChars) : d.infoChars[k] = "model"

\* probe(device_address, callback) up to the end of BleakClient.__aenter__:
\* the connection fails (the except clause calls handle_error), or the
\* ProbeState is made and appended to self.states
probe_connect(d, ok) ==
    /\ prober # "none"
    /\ Len(probes) < MaxProbes
    /\ LET p == Len(probes) + 1
           new == [device |-> d, pc |-> "get_services", manufacturer |-> None,
                   model |-> None, exc |-> None, calls |-> << >>,
                   failed |-> ~ok]
       IN  IF ok
           THEN /\ probes' = Append(probes, new)
                /\ states' = Append(states, p)
           ELSE /\ probes' = Append(probes,
                      [new EXCEPT !.pc = "done",
                                  !.calls = handle_error(<< >>, "BleakError")])
                /\ UNCHANGED states
    /\ UNCHANGED prober
    /\ UNCHANGED sessionVars
    /\ UNCHANGED << device, handlers, reads, sink, sent, writing, closing,
                    console >>
    /\ UNCHANGED codecVars

\* the exception raised between client.get_services() and the first read.
\* connection.py prints len(services) first: the call raises TypeError when
\* the collection of services the library returns has no __len__ (sized is
\* what the installed library gives); then the lookup raises when the
\* service or a characteristic is not found
lookup_outcome(d, ok, sized) ==
    IF ~ok THEN "BleakError"
    ELSE IF prober = "connection.py" /\ ~sized THEN "TypeError"
    ELSE IF ~LookupOk(d) THEN "BleakError"
    ELSE "none"

\* probe from the end of client.get_services() to the first read: the
\* Device-Info service and the two characteristics are looked up
probe_get_services(p, ok, sized) ==
    /\ At(p, "get_services")
    /\ IF lookup_outcome(probes[p].device, ok, sized) # "none"
       THEN RaiseIn(p, lookup_outcome(probes[p].device, ok, sized), ok)
       ELSE /\ probes' = [probes EXCEPT ![p].pc = "read_manufacturer"]
            /\ UNCHANGED states
    /\ UNCHANGED prober
    /\ UNCHANGED sessionVars
    /\ UNCHANGED << device, handlers, reads, sink, sent, writing, closing,
                    console >>
    /\ UNCHANGED codecVars

\* probe from the end of the read of the manufacturer characteristic to
\* the read of the model characteristic
probe_read_manufacturer(p, ok) ==
    /\ At(p, "read_manufacturer")
    /\ IF ~ok
       THEN RaiseIn(p, "BleakError", ok)
       ELSE /\ probes' = [probes EXCEPT
                  ![p].pc = "read_model",
                  ![p].manufacturer = Some(probes[p].device.manufacturer)]
            /\ UNCHANGED states
    /\ UNCHANGED prober
    /\ UNCHANGED sessionVars
    /\ UNCHANGED << device, handlers, reads, sink, sent, writing, closing,
                    console >>
    /\ UNCHANGED codecVars

\* probe from the end of the read of the model characteristic to the end
\* of the `async with` block: perform_probe runs without suspending
probe_read_model(p, ok) ==
    /\ At(p, "read_model")
    /\ IF ~ok
       THEN RaiseIn(p, "BleakError", ok)
       ELSE \E o \in {perform_probe(probes[p].calls,
                                    probes[p].manufacturer[1],
                                    probes[p].device.model)} :
                /\ probes' = [probes EXCEPT
                      ![p].pc = "aexit",
                      ![p].model = Some(probes[p].device.model),
                      ![p].calls = o.calls,
                      ![p].exc = o.exc]
                /\ states' = IF o.removed THEN Remove(states, p) ELSE states
    /\ UNCHANGED prober
    /\ UNCHANGED sessionVars
    /\ UNCHANGED << device, handlers, reads, sink, sent, writing, closing,
                    console >>
    /\ UNCHANGED codecVars

\* the end of probe: BleakClient.__aexit__ disconnects, and the except
\* clause calls handle_error with the exception that left the block, or
\* with the one the disconnection raised
probe_exit(p, ok) ==
    /\ At(p, "aexit")
    /\ LET e == IF ~ok THEN Some("BleakError") ELSE probes[p].exc
       IN  probes' = [probes EXCEPT
               ![p].pc = "done",
               ![p].exc = None,
               ![p].failed = probes[p].failed \/ ~ok,
               ![p].calls = IF e = None THEN probes[p].calls
                            ELSE handle_error(probes[p].calls, e[1])]
    /\ UNCHANGED << prober, states >>
    /\ UNCHANGED sessionVars
    /\ UNCHANGED << device, handlers, reads, sink, sent, writing, closing,
                    console >>
    /\ UNCHANGED codecVars

ProbeNext ==
    \/ \E d \in ProbeDevices : \E ok \in BOOLEAN : probe_connect(d, ok)
    \/ \E p \in 1..MaxProbes : \E ok, sized \in BOOLEAN :
           probe_get_services(p, ok, sized)
    \/ \E p \in 1..MaxProbes : \E ok \in BOOLEAN :
           probe_read_manufacturer(p, ok)
    \/ \E p \in 1..MaxProbes : \E ok \in BOOLEAN : probe_read_model(p, ok)
    \/ \E p \in 1..MaxProbes : \E ok \in BOOLEAN : probe_exit(p, ok)

\* one PaxDeviceProber and the calls of probe on it
ProbeSpec == ProbeInit /\ [][ProbeNext]_vars

\* ------------------------------------------------------------------------
\* Vocabulary of the properties
\* ------------------------------------------------------------------------

\* the session is Ready: connect returned without raising and the session
\* has not been closed since
Ready == pc = "ready"

\* a line printed by a handler is a decoded message
IsMessage(line) == line.out.exc = "none"

\* the handler tasks whose read is in flight
InFlight == {i \in 1..Len(handlers) : handlers[i].pc = "reading"}

\* the peripheral reports the vendor's manufacturer string and one of the
\* two known model identifiers
IdentityOk ==
    /\ IndexOf(device.infoChars, "manufacturer") # 0
    /\ IndexOf(device.infoChars, "model") # 0
    /\ device.manufacturer = ExpectedManufacturer
    /\ device.model \in {ModelNameEra, ModelNamePax3}

\* both required services and the six required characteristics are present
GattComplete ==
    /\ device.info
    /\ device.pax
    /\ \A c \in {"manufacturer", "model", "serial"} :
           IndexOf(device.infoChars, c) # 0
    /\ {"read", "write", "notify"} \subseteq device.paxChars

\* ------------------------------------------------------------------------
\* Properties
\* ------------------------------------------------------------------------

\* C1: the session is Ready or subscribed to notifications only if the
\* manufacturer string read in discovery is the vendor's and the model is
\* ERA or PAX3.
C1_IdentityGatesReady == (Ready \/ subscribed) => IdentityOk

\* C2: the session is Ready or subscribed only if both required services
\* and all of the manufacturer, model, serial, read, write and notify
\* characteristics were found.
C2_MissingGattFaults == (Ready \/ subscribed) => GattComplete

\* C3: whenever the subscription is active the stored key is the 16-byte
\* key derived from the serial number of the connected peripheral, and not
\* the value given to the constructor.
C3_KeyDerivedBeforeSubscribe ==
    subscribed =>
        /\ device_key # DEVICE_KEY_KEY
        /\ device_key = derive_shared_key(device.serial).val
        /\ Len(device_key.v) = 16

\* C4: at most one read of the read characteristic is in flight.
C4_OneReadInFlight == Cardinality(InFlight) <= 1

\* C5: the lines reach the sink in the order in which their notifications
\* arrived.
C5_FifoEmission ==
    \A a, b \in 1..Len(sink) : a < b => sink[a].n < sink[b].n

\* C6: once disconnect has returned, no decoded message is added to the
\* sink.
C6_NoDispatchAfterClose ==
    [][pc = "closed" =>
          \A k \in 1..Len(sink') : k > Len(sink) => ~IsMessage(sink'[k])]_vars

\* C7: when the connection is released, the notify subscription has
\* already been removed.
C7_UnsubscribeBeforeRelease ==
    [][(connected /\ ~connected') => ~subscribed]_vars

\* C8: every notification whose handler has run has caused exactly one
\* read, no read is issued without a notification, every finished handler
\* has put exactly one line in the sink, and that line is the decode of the
\* decryption, under the session key, of what its read returned, whatever
\* the notification carried.
C8_OneReadOneResult ==
    /\ reads = Cardinality({i \in 1..Len(handlers) : handlers[i].pc # "start"})
    /\ \A i \in 1..Len(handlers) :
           Cardinality({k \in 1..Len(sink) : sink[k].n = i})
               = IF handlers[i].pc = "done" THEN 1 ELSE 0
    /\ \A k \in 1..Len(sink) :
           /\ sink[k].n \in 1..Len(handlers)
           /\ sink[k].out = notification_output(sink[k].read, device_key)

\* C8 witness: two notifications, one carrying a payload of its own, have
\* each been answered by a read that returned the battery report, and both
\* reports are in the sink.
C8_Witness ==
    /\ Len(sink) = 2
    /\ \E k \in 1..2 : handlers[sink[k].n].data # << >>
    /\ \A k \in 1..2 :
           /\ sink[k].out.label = "Battery Level"
           /\ sink[k].out.n = 80

\* a line reporting a per-notification protocol failure: the read returned
\* a frame of 16 bytes or fewer, or a plaintext with an unknown tag byte
ProtocolFailure(line) ==
    /\ line.read.exc = "none"
    /\ \/ Len(line.read.val) <= 16
       \/ line.out.label = "Unknown message type (byte)"

\* C9: a step in which a handler reports a short frame or an unknown tag
\* leaves the session as it was (Ready, subscribed, connected, same key and
\* characteristics), and a later notification whose read returns a valid
\* frame is still decoded and emitted.
C9_FailureNotFatal ==
    /\ [][(Len(sink') > Len(sink) /\ ProtocolFailure(sink'[Len(sink')]))
             => UNCHANGED sessionVars]_vars
    /\ [](\A a, b \in 1..Len(sink) :
             (/\ a < b
              /\ sink[a].n < sink[b].n
              /\ ProtocolFailure(sink[a])
              /\ sink[b].read.exc = "none"
              /\ sink[b].read.val = FrameOf(Ljust(<< 3, 80 >>, 16))
              /\ device_key = Bytes(PeripheralKey))
             => (IsMessage(sink[b]) /\ sink[b].out.label = "Battery Level"))

\* C9 witness: the first notification's read returned a short frame or an
\* unknown tag, which was reported; the session is still Ready and the
\* second notification's line is the decoded battery report.
C9_Witness ==
    /\ Ready
    /\ Len(sink) = 2
    /\ sink[1].n = 1
    /\ ProtocolFailure(sink[1])
    /\ sink[2].out.label = "Battery Level"

\* C10: whenever the last call was disconnect and it has returned, it
\* raised nothing and the session is Closed with the connection released.
C10_DisconnectAnyState ==
    (lastOp = "disconnect" /\ ~closing)
        => (pc = "closed" /\ ~connected /\ err = "none")

\* the last call of send_message was made in this step
SendStep == Len(sent') = Len(sent) + 1

\* C11: on a session whose connect has raised, nothing has been written
\* to the command characteristic, no subscription is active and no message
\* has been dispatched.
C11_FaultedIsInert ==
    pc = "faulted" =>
        /\ \A k \in 1..Len(sent) : sent[k].exc # "none"
        /\ ~subscribed
        /\ \A k \in 1..Len(sink) : ~IsMessage(sink[k])

\* C12: a send_message that raises the transport's write error on a Ready
\* session leaves the session Ready with the same client, connection, key,
\* serial number, characteristics and subscription, and the error is the
\* one reported to the caller.
C12_WriteFailureNotFatal ==
    [][(Ready /\ SendStep /\ sent'[Len(sent')].exc = "BleakError")
          => /\ Ready'
             /\ err' = "BleakError"
             /\ UNCHANGED << client, connected, device_key, serial_number,
                             read_characteristic, write_characteristic,
                             notify_characteristic, subscribed, handlers,
                             sink >>]_vars

\* C12 witness: on a Ready session a first send_message raised the write
\* error, a second one wrote its frame, and a notification has been
\* decoded and printed.
C12_Witness ==
    /\ Ready
    /\ Len(sent) = 2
    /\ sent[1].exc = "BleakError"
    /\ sent[2].exc = "none"
    /\ err = "none"
    /\ \E k \in 1..Len(sink) : IsMessage(sink[k])

\* C13: a send_message on a session that is not Ready raises and writes
\* nothing.
C13_SendNeedsReady ==
    [][(~Ready /\ SendStep) => sent'[Len(sent')].exc # "none"]_vars

\* C14: decrypt_packet raises for every packet of 16 bytes or fewer,
\* under any key, and returns no plaintext; for a packet of n > 16 bytes
\* and a valid key it returns n - 16 bytes, the first n - 16 bytes
\* deciphered with the last 16 bytes as the IV.
C14_DecryptFraming ==
    cop = "decrypt_packet" =>
        LET n == Len(carg.data)
        IN  IF n <= 16
            THEN cres.exc = "ValueError" /\ cres.val = << >>
            ELSE AESNewError(carg.key) = "none" =>
                     /\ cres.exc = "none"
                     /\ Len(cres.val) = n - 16
                     /\ cres.val = OFBApply(carg.key.v,
                                            SubSeq(carg.data, n - 15, n),
                                            SubSeq(carg.data, 1, n - 16))

\* C14 witness: a packet of 17 bytes was decrypted to one byte.
C14_Witness ==
    /\ cop = "decrypt_packet"
    /\ Len(carg.data) = 17
    /\ cres.exc = "none"
    /\ Len(cres.val) = 1

\* C15: the frame of encrypt_packet is max(len(p), 16) bytes of ciphertext
\* followed by the 16-byte IV, and decrypt_packet of it under the same key
\* is p padded with zero bytes to 16 bytes when p is shorter, p otherwise.
C15_EncryptRoundTrip ==
    /\ cop = "encrypt_packet" =>
           /\ cres.exc = "none"
           /\ Len(cres.val) =
                  (IF Len(carg.data) < 16 THEN 16 ELSE Len(carg.data)) + 16
           /\ SubSeq(cres.val, Len(cres.val) - 15, Len(cres.val)) = carg.iv
    /\ cop = "decrypt_packet(encrypt_packet)" =>
           /\ cres.exc = "none"
           /\ cres.val = IF Len(carg.data) < 16
                         THEN carg.data \o [i \in 1..(16 - Len(carg.data)) |-> 0]
                         ELSE carg.data

\* C15 witness: the two-byte lock message came back from encryption and
\* decryption as itself followed by 14 zero bytes.
C15_Witness ==
    /\ cop = "decrypt_packet(encrypt_packet)"
    /\ carg.data = << 6, 1 >>
    /\ cres.val = << 6, 1, 0, 0, 0, 0, 0, 0, 0, 0, 0, 0, 0, 0, 0, 0 >>

\* C16: derive_shared_key returns a key, of 16 bytes, for a serial number
\* of 8 bytes (in UTF-8, as the function encodes it), and raises for a
\* serial number of any other length.
C16_DeriveOnlyEightBytes ==
    cop = "derive_shared_key" =>
        IF Len(Utf8Encode(carg.data)) = 8
        THEN cres.exc = "none" /\ Len(cres.val.v) = 16
        ELSE cres.exc # "none"

\* C17: encode_status_update_message gives the byte 0xFE followed by eight
\* bytes in which bit N is set exactly for the members N <= 63 of the set
\* ({3, 6} gives 0x48), never raises, and handle_incoming_message of the
\* result returns exactly the members N <= 63 of the set.
C17_StatusRoundTrip ==
    /\ cop = "encode_status_update_message" =>
           /\ cres.exc = "none"
           /\ cres.val[1] = 254
           /\ \A N \in 0..63 :
                  ((cres.val[2 + (N \div 8)] \div (2 ^ (N % 8))) % 2 = 1)
                      <=> (N \in carg.set)
           /\ carg.set = {3, 6} =>
                  SubSeq(cres.val, 2, 9) = << 72, 0, 0, 0, 0, 0, 0, 0 >>
    /\ cop = "handle_incoming_message(encode_status_update_message)" =>
           /\ cres.exc = "none"
           /\ cres.label = "Updated Attributes"
           /\ cres.attrs = {N \in carg.set : N <= 63}

\* C17 witness: the set {LockStatus, StatusUpdate} was encoded and decoded
\* to {LockStatus}: the member 254 was dropped.
C17_Witness ==
    /\ cop = "handle_incoming_message(encode_status_update_message)"
    /\ carg.set = {6, 254}
    /\ cres.attrs = {6}

\* C18: for a temperature of a whole number k of tenths of a degree,
\* encode_temperature_message gives the tag followed by k as an unsigned
\* 16-bit little-endian field when 0 <= k <= 65535 and raises otherwise,
\* and handle_incoming_message of the result returns k tenths.
C18_TemperatureRoundTrip ==
    /\ (cop = "encode_temperature_message" /\ carg.num % 10 = 0) =>
           LET k == IF carg.num >= 0 THEN carg.num \div 10
                    ELSE -((-carg.num) \div 10)
           IN  IF k >= 0 /\ k <= 65535
               THEN /\ cres.exc = "none"
                    /\ cres.val[1] = 2
                    /\ cres.val[2] = k % 256
                    /\ cres.val[3] = k \div 256
               ELSE cres.exc = "struct.error"
    /\ (cop = "handle_incoming_message(encode_temperature_message)"
          /\ carg.num % 10 = 0) =>
           /\ cres.exc = "none"
           /\ cres.label = "Temperature Set Point"
           /\ cres.n * 10 = carg.num

\* C18 witness: 99.9 degrees was encoded and decoded to 999 tenths.
C18_Witness ==
    /\ cop = "handle_incoming_message(encode_temperature_message)"
    /\ carg.num = 9990
    /\ cres.n = 999

\* C19: a DynamicMode message whose mode byte is not one of 0..4 is
\* rejected with an error by decode_dynamic_mode and by
\* handle_incoming_message.
C19_DynamicModeRejected ==
    (/\ cop \in {"decode_dynamic_mode", "handle_incoming_message"}
     /\ Len(carg.data) >= 2
     /\ carg.data[1] = 19
     /\ carg.data[2] \notin DynamicMode)
        => cres.exc # "none"

\* C20: no line printed by the session carries the session key.
C20_KeyNotPrinted ==
    device_key.t = "bytes" =>
        \A line \in console : line.v # Hex(device_key.v)

\* the calls of send_message whose frame encrypt_packet made
Encrypted == {k \in 1..Len(sent) : Len(sent[k].frame) # 0}

\* C21 as stated: no two calls of encrypt_packet in a session use the same
\* IV, and two calls with the same plaintext and key give different
\* frames.
C21_NoIvReuse ==
    \A i, j \in Encrypted :
        i # j => /\ sent[i].iv # sent[j].iv
                 /\ sent[i].frame # sent[j].frame

\* C21 amended: every call of encrypt_packet puts the IV that
\* get_random_bytes returned to that call at the end of its frame, and two
\* calls with the same plaintext and key give different frames exactly
\* when the generator returned different IVs to them.
C21_FreshDrawPerCall ==
    /\ \A i \in Encrypted :
           SubSeq(sent[i].frame, Len(sent[i].frame) - 15,
                  Len(sent[i].frame)) = sent[i].iv
    /\ \A i, j \in Encrypted :
           sent[i].message = sent[j].message =>
               ((sent[i].frame = sent[j].frame)
                    <=> (sent[i].iv = sent[j].iv))

\* C21 witness: two calls of send_message with the same message, under the
\* derived key, were given different IVs and made different frames.
C21_Witness ==
    /\ device_key.t = "bytes"
    /\ Len(sent) = 2
    /\ Encrypted = {1, 2}
    /\ sent[1].message = sent[2].message
    /\ sent[1].iv # sent[2].iv
    /\ sent[1].frame # sent[2].frame

\* the calls of probe that have returned
Completed == {p \in 1..Len(probes) : probes[p].pc = "done"}

\* the peripherals with the Device-Info service, both characteristics,
\* the expected manufacturer and the model ERA or PAX3
IdentifiableDevices ==
    {d \in ProbeDevices :
        /\ d.info
        /\ \E k \in 1..Len(d.infoChars) : d.infoChars[k] = "manufacturer"
        /\ \E k \in 1..Len(d.infoChars) : d.infoChars[k] = "model"
        /\ d.manufacturer = ExpectedManufacturer
        /\ d.model \in {ModelNameEra, ModelNamePax3}}

\* C22: every call of probe that has returned has invoked the callback
\* exactly once, with a profile and no error or with no device and an
\* error; when the peripheral reports the expected manufacturer and the
\* model ERA or PAX3 and no transport call failed, the invocation carries
\* PaxEraDevice or Pax3Device and no error; no probe invokes the callback
\* twice.
C22_CallbackExactlyOnce ==
    /\ \A p \in 1..Len(probes) : Len(probes[p].calls) <= 1
    /\ \A p \in Completed :
           /\ Len(probes[p].calls) = 1
           /\ (probes[p].calls[1].device = None)
                  # (probes[p].calls[1].error = None)
           /\ (/\ ~probes[p].failed
               /\ probes[p].device \in IdentifiableDevices)
                  => probes[p].calls[1] =
                         Invocation(Some(IF probes[p].device.model = ModelNameEra
                                         THEN "PaxEraDevice"
                                         ELSE "Pax3Device"), None)

\* C23: self.states lists the ProbeState of a call of probe only while
\* that call is running: no call that has returned has its state listed.
C23_StatesOnlyWhileRunning ==
    \A p \in Completed : \A k \in 1..Len(states) : states[k] # p

\* C24: handle_incoming_message returns for every plaintext of one byte
\* or more: it never raises.
C24_DecodeTotal ==
    (cop = "handle_incoming_message" /\ Len(carg.data) >= 1)
        => cres.exc = "none"

====
